---- MODULE Spec2Model ----
(***************************************************************************)
(* A model of aborg: the file-number inference of src/track.rs             *)
(* (get_track_number, parse_from_filename) and the template rendering of   *)
(* src/schema.rs (Schema::fmt_path).                                       *)
(*                                                                         *)
(* Strings are sequences of one-character strings, so that the regular     *)
(* expressions of the source are matched character by character.  An       *)
(* Option<T> is the empty sequence (None) or a one-element sequence        *)
(* (Some(v)).                                                              *)
(***************************************************************************)
EXTENDS Integers, Sequences, FiniteSets, TLC

VARIABLES
    file_stem,      \* the argument of get_track_number: the file's name, no extension
    tag,            \* what reading the embedded tag gives for this file
    file_number,    \* the value get_track_number returned
    metadata,       \* the Metadata record of the source directory
    path_template,  \* Schema.path_template, as parsed by register_template_string
    path_result,    \* the Result fmt_path returned
    pc,             \* "call": before the call, "done": after it
    file_template,  \* Schema.file_template
    files,          \* the files of get_files that fmt_file has not seen yet
    file_result,    \* the last call of fmt_file: its file and what it gave
    cfg,            \* CONFIG
    found,          \* the directories WalkDir has still to give to plan
    plans,          \* the Vec<Plan> plan returns, run or dry_run consumes
    fs              \* the file system: the source tree and the destination

vars ==
    <<file_stem, tag, file_number, metadata, path_template, path_result, pc,
      file_template, files, file_result, cfg, found, plans, fs>>
trackVars == <<file_stem, tag, file_number>>
fileVars == <<file_template, files, file_result>>
batchVars == <<cfg, found, plans, fs>>

(***************************************************************************)
(* Option<T>                                                               *)
(***************************************************************************)
None == <<>>
Some(v) == <<v>>
IsSome(o) == Len(o) = 1
Unwrap(o) == o[1]

(***************************************************************************)
(* Character classes of the regex crate, restricted to ASCII.              *)
(***************************************************************************)
Digit == {"0", "1", "2", "3", "4", "5", "6", "7", "8", "9"}
LowerSeq == <<"a", "b", "c", "d", "e", "f", "g", "h", "i", "j", "k", "l", "m",
              "n", "o", "p", "q", "r", "s", "t", "u", "v", "w", "x", "y", "z">>
UpperSeq == <<"A", "B", "C", "D", "E", "F", "G", "H", "I", "J", "K", "L", "M",
              "N", "O", "P", "Q", "R", "S", "T", "U", "V", "W", "X", "Y", "Z">>
Lower == {LowerSeq[i] : i \in DOMAIN LowerSeq}
Upper == {UpperSeq[i] : i \in DOMAIN UpperSeq}
Alpha == Lower \cup Upper
\* \w
WordChar == Alpha \cup Digit \cup {"_"}
\* \s
Space == {" ", "\t", "\n", "\r", "\f"}

\* Case folding of the (?i) flag.
ToLower(c) ==
    IF c \in Upper
    THEN LowerSeq[CHOOSE i \in DOMAIN UpperSeq : UpperSeq[i] = c]
    ELSE c

\* \b at position pos (between s[pos-1] and s[pos]).
IsWordBoundary(s, pos) ==
    LET before == pos > 1 /\ s[pos - 1] \in WordChar
        after  == pos <= Len(s) /\ s[pos] \in WordChar
    IN  before # after

(***************************************************************************)
(* A regular expression is a sequence of nodes; Regex::captures is a       *)
(* leftmost-first backtracking match (greedy repetition, alternatives in   *)
(* order).                                                                 *)
(***************************************************************************)
Node(k, cls, lo, hi, unb, grp, words, sub) ==
    [k |-> k, cls |-> cls, lo |-> lo, hi |-> hi, unb |-> unb, grp |-> grp,
     words |-> words, sub |-> sub]
\* ^   $   \b
Bol == Node("bol", {}, 0, 0, FALSE, 0, <<>>, <<>>)
Eol == Node("eol", {}, 0, 0, FALSE, 0, <<>>, <<>>)
Wb == Node("wb", {}, 0, 0, FALSE, 0, <<>>, <<>>)
\* cls{lo,hi}, captured as group grp when grp > 0
Rep(cls, lo, hi, grp) == Node("rep", cls, lo, hi, FALSE, grp, <<>>, <<>>)
\* cls      cls?      cls*      cls+
One(cls) == Node("rep", cls, 1, 1, FALSE, 0, <<>>, <<>>)
Opt(cls) == Node("rep", cls, 0, 1, FALSE, 0, <<>>, <<>>)
Star(cls) == Node("rep", cls, 0, 0, TRUE, 0, <<>>, <<>>)
Plus(cls, grp) == Node("rep", cls, 1, 0, TRUE, grp, <<>>, <<>>)
\* (w1|w2|...) under (?i), captured as group grp when grp > 0
Alt(words, grp) == Node("alt", {}, 0, 0, FALSE, grp, words, <<>>)
\* (?:sub)?
OptGroup(sub) == Node("optgroup", {}, 0, 0, FALSE, 0, <<>>, sub)

NoMatch == [ok |-> FALSE, start |-> 0, end |-> 0, caps |-> <<>>]
NoCaps == <<None, None, None>>

\* The length of the longest run of cls characters of s from pos, at most max.
RECURSIVE RunLen(_, _, _, _)
RunLen(cls, s, pos, max) ==
    IF max = 0 \/ pos > Len(s) \/ s[pos] \notin cls
    THEN 0
    ELSE 1 + RunLen(cls, s, pos + 1, max - 1)

\* Whether the word w stands at pos of s, letter case ignored.
LitAt(w, s, pos) ==
    /\ pos + Len(w) - 1 <= Len(s)
    /\ \A i \in 1..Len(w) : ToLower(s[pos + i - 1]) = w[i]

SetCap(caps, grp, s, from, to) ==
    IF grp = 0 THEN caps
    ELSE [caps EXCEPT ![grp] = Some(SubSeq(s, from, to - 1))]

RECURSIVE MatchAt(_, _, _, _, _)
RECURSIVE TryRep(_, _, _, _, _, _, _)
RECURSIVE TryAlt(_, _, _, _, _, _, _)

\* Match the nodes re at pos of s; start is where the whole match began.
MatchAt(re, s, start, pos, caps) ==
    IF re = <<>>
    THEN [ok |-> TRUE, start |-> start, end |-> pos, caps |-> caps]
    ELSE LET n == Head(re)
             rest == Tail(re)
         IN  CASE n.k = "bol" ->
                    IF pos = 1 THEN MatchAt(rest, s, start, pos, caps) ELSE NoMatch
               [] n.k = "eol" ->
                    IF pos = Len(s) + 1 THEN MatchAt(rest, s, start, pos, caps)
                    ELSE NoMatch
               [] n.k = "wb" ->
                    IF IsWordBoundary(s, pos) THEN MatchAt(rest, s, start, pos, caps)
                    ELSE NoMatch
               [] n.k = "rep" ->
                    TryRep(n, rest, s, start, pos, caps,
                           RunLen(n.cls, s, pos, IF n.unb THEN Len(s) ELSE n.hi))
               [] n.k = "alt" ->
                    TryAlt(n, 1, rest, s, start, pos, caps)
               [] n.k = "optgroup" ->
                    LET r == MatchAt(n.sub \o rest, s, start, pos, caps)
                    IN  IF r.ok THEN r ELSE MatchAt(rest, s, start, pos, caps)

\* Greedy repetition: the longest run first, then shorter ones.
TryRep(n, rest, s, start, pos, caps, len) ==
    IF len < n.lo
    THEN NoMatch
    ELSE LET r == MatchAt(rest, s, start, pos + len,
                          SetCap(caps, n.grp, s, pos, pos + len))
         IN  IF r.ok THEN r ELSE TryRep(n, rest, s, start, pos, caps, len - 1)

\* Alternatives in the order written.
TryAlt(n, i, rest, s, start, pos, caps) ==
    IF i > Len(n.words)
    THEN NoMatch
    ELSE LET w == n.words[i]
             r == IF LitAt(w, s, pos)
                  THEN MatchAt(rest, s, start, pos + Len(w),
                               SetCap(caps, n.grp, s, pos, pos + Len(w)))
                  ELSE NoMatch
         IN  IF r.ok THEN r ELSE TryAlt(n, i + 1, rest, s, start, pos, caps)

\* The leftmost match of re in s that starts at from or later.
RECURSIVE FindFrom(_, _, _)
FindFrom(re, s, from) ==
    IF from > Len(s) + 1
    THEN NoMatch
    ELSE LET r == MatchAt(re, s, from, from, NoCaps)
         IN  IF r.ok THEN r ELSE FindFrom(re, s, from + 1)

\* Regex::captures
Captures(re, s) == FindFrom(re, s, 1)

\* Regex::captures_iter: the successive non-overlapping matches.
RECURSIVE IterFrom(_, _, _)
IterFrom(re, s, from) ==
    LET r == FindFrom(re, s, from)
    IN  IF ~r.ok THEN <<>>
        ELSE <<r>> \o IterFrom(re, s, IF r.end > r.start THEN r.end ELSE r.end + 1)

CapturesIter(re, s) == IterFrom(re, s, 1)

(***************************************************************************)
(* str::parse::<u16>                                                       *)
(***************************************************************************)
DigitSeq == <<"0", "1", "2", "3", "4", "5", "6", "7", "8", "9">>
DigitVal(c) == (CHOOSE i \in DOMAIN DigitSeq : DigitSeq[i] = c) - 1

U16Max == 65535

\* Ok(n) as Some(n), Err as None: the digits are accumulated from the left and
\* the parse fails as soon as the value leaves the u16 range.
RECURSIVE ParseAcc(_, _, _)
ParseAcc(ds, i, acc) ==
    IF i > Len(ds) THEN Some(acc)
    ELSE IF ds[i] \notin Digit THEN None
    ELSE LET v == acc * 10 + DigitVal(ds[i])
         IN  IF v > U16Max THEN None ELSE ParseAcc(ds, i + 1, v)

ParseU16(ds) == IF ds = <<>> THEN None ELSE ParseAcc(ds, 1, 0)

(***************************************************************************)
(* The regular expressions of parse_from_filename.                         *)
(***************************************************************************)
Str_book == <<"b", "o", "o", "k">>
Str_section == <<"s", "e", "c", "t", "i", "o", "n">>
Str_chapter == <<"c", "h", "a", "p", "t", "e", "r">>
Str_part == <<"p", "a", "r", "t">>
Str_track == <<"t", "r", "a", "c", "k">>
Str_of == <<"o", "f">>
\* [-/.]
DateSep == {"-", "/", "."}

\* (?i)\bbook\s*#?\s*(\d+)\b
re_book ==
    <<Wb, Alt(<<Str_book>>, 0), Star(Space), Opt({"#"}), Star(Space),
      Plus(Digit, 1), Wb>>
\* \b(\d{4})[-/.](\d{1,2})[-/.](\d{1,2})\b
re_date_iso ==
    <<Wb, Rep(Digit, 4, 4, 1), One(DateSep), Rep(Digit, 1, 2, 2), One(DateSep),
      Rep(Digit, 1, 2, 3), Wb>>
\* \b(\d{1,2})[-/.](\d{1,2})[-/.](\d{4})\b
re_date_common ==
    <<Wb, Rep(Digit, 1, 2, 1), One(DateSep), Rep(Digit, 1, 2, 2), One(DateSep),
      Rep(Digit, 4, 4, 3), Wb>>
\* \b(\d{1,2})[-/.](\d{1,2})[-/.](\d{2})\b
re_date_short ==
    <<Wb, Rep(Digit, 1, 2, 1), One(DateSep), Rep(Digit, 1, 2, 2), One(DateSep),
      Rep(Digit, 2, 2, 3), Wb>>
\* (?i)\b(section|chapter|part|track)\s*#?\s*(\d+)\b
re_context ==
    <<Wb, Alt(<<Str_section, Str_chapter, Str_part, Str_track>>, 1), Star(Space),
      Opt({"#"}), Star(Space), Plus(Digit, 2), Wb>>
\* (?i)\b(\d+)\s*of\s*\d+
re_of ==
    <<Wb, Plus(Digit, 1), Star(Space), Alt(<<Str_of>>, 0), Star(Space),
      Plus(Digit, 0)>>
\* The start pattern without its closing separator: ^(?:[a-zA-Z]+[_\s-]*)?(\d{1,3})\s*
re_start_NoSeparator ==
    <<Bol, OptGroup(<<Plus(Alpha, 0), Star({"_", "-"} \cup Space)>>),
      Rep(Digit, 1, 3, 1), Star(Space)>>

\* ^(?:[a-zA-Z]+[_\s-]*)?(\d{1,3})\s*[-_.]
re_start ==
    <<Bol, OptGroup(<<Plus(Alpha, 0), Star({"_", "-"} \cup Space)>>),
      Rep(Digit, 1, 3, 1), Star(Space), One({"-", "_", "."})>>
\* \b(\d{1,3})[-/_]\d+\b
re_track_total ==
    <<Wb, Rep(Digit, 1, 3, 1), One({"-", "/", "_"}), Plus(Digit, 0), Wb>>
\* [-_]\s*(\d+)$
re_suffix == <<One({"-", "_"}), Star(Space), Plus(Digit, 1), Eol>>
\* ^\s*(\d+)\s*$
re_solo == <<Bol, Star(Space), Plus(Digit, 1), Star(Space), Eol>>

(***************************************************************************)
(* parse_from_filename                                                     *)
(***************************************************************************)
\* caps[g].parse::<u16>() of a match
ParseGroup(m, g) == ParseU16(Unwrap(m.caps[g]))

\* if let Ok(n) = caps[g].parse::<u16>() { ignore_list.push(n) }
PushParsed(list, m, g) ==
    LET n == ParseGroup(m, g)
    IN  IF IsSome(n) THEN Append(list, Unwrap(n)) ELSE list

\* The three pushes of one date match, and those of all matches of one regex.
PushDate(list, m) == PushParsed(PushParsed(PushParsed(list, m, 1), m, 2), m, 3)

RECURSIVE PushDates(_, _, _)
PushDates(list, ms, i) ==
    IF i > Len(ms) THEN list ELSE PushDates(PushDate(list, ms[i]), ms, i + 1)

\* Steps 1-4: the numbers to ignore, in the order they are pushed.
IgnoreList(file_name) ==
    LET book == Captures(re_book, file_name)
        l1 == IF book.ok THEN PushParsed(<<>>, book, 1) ELSE <<>>
        l2 == PushDates(l1, CapturesIter(re_date_iso, file_name), 1)
        l3 == PushDates(l2, CapturesIter(re_date_common, file_name), 1)
    IN  PushDates(l3, CapturesIter(re_date_short, file_name), 1)

\* ignore_list.contains(&n)
Contains(list, n) == \E i \in DOMAIN list : list[i] = n

\* A step that does not consult the ignore list.
Rule_IgnoreListUnused(re, file_name, ignore_list) ==
    LET caps == Captures(re, file_name)
    IN  IF caps.ok THEN ParseGroup(caps, 1) ELSE None

\* One of the steps 6-10: the number the step returns, None when it falls through
\* (no match, a parse failure, or an ignored number).
Rule(re, file_name, ignore_list) ==
    LET caps == Captures(re, file_name)
        num == IF caps.ok THEN ParseGroup(caps, 1) ELSE None
    IN  IF IsSome(num) /\ ~Contains(ignore_list, Unwrap(num)) THEN num ELSE None

\* Steps 6-10 in order: the first step that returns decides.
RECURSIVE Cascade(_, _, _, _)
Cascade(rules, i, file_name, ignore_list) ==
    IF i > Len(rules) THEN None
    ELSE LET r == Rule(rules[i], file_name, ignore_list)
         IN  IF IsSome(r) THEN r ELSE Cascade(rules, i + 1, file_name, ignore_list)

CascadeRules == <<re_of, re_start, re_track_total, re_suffix, re_solo>>

ParseFromFilename(file_name) ==
    LET ignore_list == IgnoreList(file_name)
        context == Captures(re_context, file_name)
    IN  IF context.ok
        THEN ParseGroup(context, 2)
        ELSE Cascade(CascadeRules, 1, file_name, ignore_list)

(***************************************************************************)
(* get_track_number.  Reading the tag is lofty's work: tag records what it *)
(* gives, read_ok (Probe::open and read succeed), has_tag (primary_tag is  *)
(* Some) and track (Accessor::track, an Option<u32>).                      *)
(***************************************************************************)
U16Mod == 65536

\* A narrower cast: track as u8.
AsU16_Narrow(track) == track % 256

\* track as u16
AsU16(track) == track % U16Mod

\* The zero sentinel taken as a tag ordinal: track >= 0.
GetTrackNumber_ZeroAccepted(path, t) ==
    IF t.read_ok /\ t.has_tag /\ IsSome(t.track) /\ Unwrap(t.track) >= 0
    THEN Some(AsU16(Unwrap(t.track)))
    ELSE ParseFromFilename(path)

GetTrackNumber(path, t) ==
    IF t.read_ok /\ t.has_tag /\ IsSome(t.track) /\ Unwrap(t.track) > 0
    THEN Some(AsU16(Unwrap(t.track)))
    ELSE ParseFromFilename(path)

(***************************************************************************)
(* Metadata (src/metadata.rs).  A field value is a string, a u16 or a      *)
(* bool; a Metadata record maps every field to an Option of a value.       *)
(***************************************************************************)
Fields ==
    {"title", "subtitle", "series", "book_number", "book_number_with_zeros",
     "author", "published_year", "published_date", "genre", "language",
     "abridged", "file_number", "file_number_with_zeros"}
StrVal(cs) == [t |-> "str", s |-> cs, n |-> 0, b |-> FALSE]
NumVal(n) == [t |-> "num", s |-> <<>>, n |-> n, b |-> FALSE]
BoolVal(b) == [t |-> "bool", s |-> <<>>, n |-> 0, b |-> b]
\* An Option<String>, Option<u16> or Option<bool> as the value of a field
OptStr(o) == IF IsSome(o) THEN Some(StrVal(Unwrap(o))) ELSE None
OptNum(o) == IF IsSome(o) THEN Some(NumVal(Unwrap(o))) ELSE None
OptBool(o) == IF IsSome(o) THEN Some(BoolVal(Unwrap(o))) ELSE None
\* Vec::first().cloned()
First(vec) == IF Len(vec) > 0 THEN Some(vec[1]) ELSE None
\* Option<Vec<String>>.and_then(|v| v.first().cloned())
AndThenFirst(o) == IF IsSome(o) THEN First(Unwrap(o)) ELSE None

\* . of the regex crate: any character but the line feed
Punct == {"-", "/", ".", "#", ",", "'", "(", ")", ":", "!"}
AnyChar == (WordChar \cup Space \cup Punct) \ {"\n"}
\* ^(.+)\s+#?(\d+)$
re_series == <<Bol, Plus(AnyChar, 1), Plus(Space, 0), Opt({"#"}), Plus(Digit, 2), Eol>>

\* The Metadata parse_metadata builds from a RawMetadata that was read and
\* deserialized.
ParseMetadata(raw) ==
    LET author == AndThenFirst(raw.authors)
        genre == AndThenFirst(raw.genres)
        full_series == AndThenFirst(raw.series)
        results == IF IsSome(full_series)
                   THEN Captures(re_series, Unwrap(full_series))
                   ELSE NoMatch
        series == IF results.ok THEN Some(StrVal(Unwrap(results.caps[1]))) ELSE None
        book_number == IF results.ok THEN OptNum(ParseGroup(results, 2))
                       ELSE None
    IN  [f \in Fields |->
            CASE f = "title" -> Some(StrVal(raw.title))
              [] f = "subtitle" -> OptStr(raw.subtitle)
              [] f = "series" -> series
              [] f = "book_number" -> book_number
              [] f = "author" -> OptStr(author)
              [] f = "published_year" -> OptStr(raw.published_year)
              [] f = "published_date" -> OptStr(raw.published_date)
              [] f = "genre" -> OptStr(genre)
              [] f = "language" -> OptStr(raw.language)
              [] f = "abridged" -> OptBool(raw.abridged)
              [] OTHER -> None]

(***************************************************************************)
(* format!("{:0w$}", num): the decimal digits of num, '0' added on the     *)
(* left up to the width.                                                   *)
(***************************************************************************)
RECURSIVE Decimal(_)
Decimal(n) ==
    IF n < 10 THEN <<DigitSeq[n + 1]>>
    ELSE Decimal(n \div 10) \o <<DigitSeq[(n % 10) + 1]>>

RECURSIVE PadLeft(_, _)
PadLeft(ds, width) == IF Len(ds) >= width THEN ds ELSE PadLeft(<<"0">> \o ds, width)

\* A padding that keeps the last width digits only.
ZeroPad_Truncating(n, width) ==
    LET ds == PadLeft(Decimal(n), width)
    IN  SubSeq(ds, Len(ds) - width + 1, Len(ds))

ZeroPad(n, width) == PadLeft(Decimal(n), width)

BookWidth == 2
\* metadata.book_number.map(|num| format!("{:02}", num))
BookNumberWithZeros(md) ==
    IF IsSome(md["book_number"])
    THEN Some(StrVal(ZeroPad(Unwrap(md["book_number"]).n, BookWidth)))
    ELSE None

(***************************************************************************)
(* Rendering (the handlebars crate as Schema uses it: no_escape, strict    *)
(* mode).  A template is the sequence of the elements of a template        *)
(* string: text, {{field}}, {{#if field}} and {{/if}}.                     *)
(***************************************************************************)
Lit(cs) == [k |-> "lit", f |-> "", s |-> cs]
Var(f) == [k |-> "var", f |-> f, s |-> <<>>]
If(f) == [k |-> "if", f |-> f, s |-> <<>>]
EndIf == [k |-> "endif", f |-> "", s |-> <<>>]

\* The data render sees: serde skips the fields that are None
\* (skip_serializing_if = "Option::is_none").
Serialize(md) == [f \in {g \in Fields : IsSome(md[g])} |-> Unwrap(md[f])]
\* A field of the data, None when the data has no such field.
Lookup(data, f) == IF f \in DOMAIN data THEN Some(data[f]) ELSE None

Str_true == <<"t", "r", "u", "e">>
Str_false == <<"f", "a", "l", "s", "e">>
\* What {{field}} writes for a value; no_escape keeps a string as it is.
ToText(v) ==
    CASE v.t = "str" -> v.s
      [] v.t = "num" -> Decimal(v.n)
      [] v.t = "bool" -> IF v.b THEN Str_true ELSE Str_false

\* A test of presence alone.
Truthy_PresenceOnly(o) == IsSome(o)

\* The if helper with includeZero: the number 0 includes the block.
Truthy_ZeroIncluded(o) ==
    /\ IsSome(o)
    /\ LET v == Unwrap(o)
       IN  CASE v.t = "str" -> v.s # <<>>
             [] v.t = "num" -> TRUE
             [] v.t = "bool" -> v.b

\* {{#if}} tests the value, not its presence: a missing field, an empty string,
\* the number 0 and false do not include the block.
Truthy(o) ==
    /\ IsSome(o)
    /\ LET v == Unwrap(o)
       IN  CASE v.t = "str" -> v.s # <<>>
             [] v.t = "num" -> v.n # 0
             [] v.t = "bool" -> v.b

Ok(cs) == [ok |-> TRUE, out |-> cs, field |-> ""]
\* RenderError: in strict mode, the variable that could not be accessed
Err(f) == [ok |-> FALSE, out |-> <<>>, field |-> f]
IsOk(r) == r.ok

\* The elements from i on; skip counts the open blocks that are left out, out
\* is what has been written.  In strict mode a {{field}} the data does not have
\* is an error; otherwise it writes nothing.
RECURSIVE RenderFrom(_, _, _, _, _, _)
RenderFrom(tpl, i, skip, data, out, strict) ==
    IF i > Len(tpl) THEN Ok(out)
    ELSE LET e == tpl[i]
         IN  CASE e.k = "lit" ->
                    RenderFrom(tpl, i + 1, skip, data,
                               IF skip = 0 THEN out \o e.s ELSE out, strict)
               [] e.k = "var" ->
                    IF skip > 0 THEN RenderFrom(tpl, i + 1, skip, data, out, strict)
                    ELSE IF IsSome(Lookup(data, e.f))
                         THEN RenderFrom(tpl, i + 1, skip, data,
                                         out \o ToText(Unwrap(Lookup(data, e.f))), strict)
                         ELSE IF strict THEN Err(e.f)
                              ELSE RenderFrom(tpl, i + 1, skip, data, out, strict)
               [] e.k = "if" ->
                    IF skip > 0 THEN RenderFrom(tpl, i + 1, skip + 1, data, out, strict)
                    ELSE IF Truthy(Lookup(data, e.f))
                         THEN RenderFrom(tpl, i + 1, 0, data, out, strict)
                         ELSE RenderFrom(tpl, i + 1, 1, data, out, strict)
               [] e.k = "endif" ->
                    RenderFrom(tpl, i + 1, IF skip > 0 THEN skip - 1 ELSE 0, data, out,
                               strict)

\* A registry left in its default mode: set_strict_mode(true) is not called.
Render_NotStrict(tpl, md) == RenderFrom(tpl, 1, 0, Serialize(md), <<>>, FALSE)

\* reg.set_strict_mode(true); reg.render(name, metadata)
Render(tpl, md) == RenderFrom(tpl, 1, 0, Serialize(md), <<>>, TRUE)

\* register_template_string(..).unwrap() accepts the template: every {{/if}}
\* closes an open {{#if}} and none is left open.
RECURSIVE Balanced(_, _, _)
Balanced(tpl, i, depth) ==
    IF i > Len(tpl) THEN depth = 0
    ELSE CASE tpl[i].k = "if" -> Balanced(tpl, i + 1, depth + 1)
           [] tpl[i].k = "endif" -> depth > 0 /\ Balanced(tpl, i + 1, depth - 1)
           [] OTHER -> Balanced(tpl, i + 1, depth)
WellFormed(tpl) == Balanced(tpl, 1, 0)

\* Schema::fmt_path: the metadata as it leaves the call, and the result.
FmtPathMetadata(md) == [md EXCEPT !["book_number_with_zeros"] = BookNumberWithZeros(md)]
FmtPath(tpl, md) == Render(tpl, FmtPathMetadata(md))

(***************************************************************************)
(* Schema::fmt_file.  A file is known by the last component of its path    *)
(* (name); Path::file_stem and Path::extension split it at its last dot,   *)
(* a name with no dot or with its only dot in front has no extension.      *)
(***************************************************************************)
LastDot(name) ==
    LET dots == {i \in DOMAIN name : name[i] = "."}
    IN  IF dots = {} THEN 0 ELSE CHOOSE i \in dots : \A j \in dots : j <= i
\* file_path.extension()
Extension(name) ==
    IF LastDot(name) <= 1 THEN None
    ELSE Some(SubSeq(name, LastDot(name) + 1, Len(name)))
\* file_path.file_stem()
FileStem(name) ==
    IF LastDot(name) <= 1 THEN name ELSE SubSeq(name, 1, LastDot(name) - 1)

FileWidth == 3

\* The file number set, the padded number left as it was.
FmtFileMetadata_StalePadding(md, number) ==
    [md EXCEPT !["file_number"] = OptNum(number)]

\* metadata.file_number = file_number;
\* metadata.file_number_with_zeros = file_number.map(|num| format!("{:03}", num));
FmtFileMetadata(md, number) ==
    [md EXCEPT !["file_number"] = OptNum(number),
               !["file_number_with_zeros"] =
                   IF IsSome(number)
                   THEN Some(StrVal(ZeroPad(Unwrap(number), FileWidth)))
                   ELSE None]

\* What a call of fmt_file gives: fault is "" when it returns and names the
\* unwrap that panicked otherwise; rendered tells that reg.render was called.
Returned(r, md, rendered) ==
    [fault |-> "", result |-> r, metadata |-> md, rendered |-> rendered]
Panicked(fault, md, rendered) ==
    [fault |-> fault, result |-> Err(""), metadata |-> md, rendered |-> rendered]

\* Ok(format!("{}.{}", reg.render("file", metadata).unwrap(), extension))
RenderFile(r, md, extension) ==
    IF IsOk(r) THEN Returned(Ok(r.out \o <<".">> \o extension), md, TRUE)
    ELSE Panicked("render", md, TRUE)

\* The branch of a file whose extension is in file_ext.
FmtAudioFile(tpl, md, extension) == RenderFile(Render(tpl, md), md, extension)

\* probed is what Probe::open(file_name).read() gives for the path that is
\* passed to get_track_number: the file stem.
FmtFile(tpl, md, name, file_ext, probed) ==
    IF Extension(name) = None THEN Panicked("extension", md, FALSE)
    ELSE IF Contains(file_ext, Unwrap(Extension(name)))
         THEN FmtAudioFile(tpl,
                           FmtFileMetadata(md, GetTrackNumber(FileStem(name), probed)),
                           Unwrap(Extension(name)))
         ELSE Returned(Ok(name), md, FALSE)

(***************************************************************************)
(* The inputs.  A file stem is one of the inputs of the source's test      *)
(* table, one of a few longer samples, or the concatenation of at most     *)
(* MaxSegs atoms: keyword phrases, dates, numbers (in and out of the u16   *)
(* range), words and separators.                                           *)
(***************************************************************************)
MaxSegs == 3

\* The inputs of test_parse_from_filename.
TestInputs == <<
    <<"0", "2", " ", "-", " ", "b", "o", "o", "k", " ", "t", "i", "t", "l", "e">>,
    <<"0", "2", " ", "-", " ", "b", "o", "o", "k", " ", "w", "i", "t", "h", " ", "n", "u", "m", "b", "e", "r", " ", "3", " ", "i", "n", " ", "t", "i", "t", "l", "e">>,
    <<"2", " ", "-", " ", "b", "o", "o", "k", " ", "w", "i", "t", "h", " ", "t", "i", "t", "l", "e", " ", "-", " ", "b", "o", "o", "k", " ", "3">>,
    <<"B", "o", "o", "k", " ", "3", " ", "-", " ", "t", "i", "t", "l", "e", " ", "-", " ", "0", "2">>,
    <<"B", "o", "o", "k", "3", " ", "-", " ", "t", "i", "t", "l", "e", " ", "-", " ", "2">>,
    <<"B", "o", "o", "k", " ", "3", " ", "-", " ", "t", "i", "t", "l", "e", "_", "2">>,
    <<"B", "o", "o", "k", "3", " ", "-", " ", "t", "i", "t", "l", "e", " ", "w", "i", "t", "h", " ", "n", "u", "m", "b", "e", "r", " ", "4", " ", "i", "n", " ", "i", "t", " ", "-", " ", "2", " ", "o", "f", " ", "1", "3">>,
    <<"b", "o", "o", "k", " ", "3", " ", "-", " ", "t", "i", "t", "l", "e", " ", "-", " ", "2", "o", "f", "1", "3">>,
    <<"A", "u", "t", "h", "o", "r", " ", "-", " ", "T", "i", "t", "l", "e", " ", "w", "i", "t", "h", " ", "n", "u", "m", "b", "e", "r", " ", "4", " ", "i", "n", " ", "i", "t">>,
    <<"B", "o", "o", "k", " ", "3", " ", "-", " ", "t", "i", "t", "l", "e">>,
    <<"T", "i", "t", "l", "e", " ", "w", "i", "t", "h", " ", "n", "u", "m", "b", "e", "r", " ", "4", " ", "i", "n", " ", "i", "t">>,
    <<"B", "o", "o", "k", " ", "3", " ", "-", " ", "s", "e", "c", "t", "i", "o", "n", " ", "7", " ", "-", " ", "t", "i", "t", "l", "e">>,
    <<"B", "o", "o", "k", "3", " ", "-", " ", "s", "e", "c", "t", "i", "o", "n", "7", " ", "-", " ", "t", "i", "t", "l", "e">>,
    <<"B", "o", "o", "k", " ", "3", " ", "-", " ", "t", "i", "t", "l", "e", " ", "-", " ", "s", "e", "c", "t", "i", "o", "n", " ", "7">>,
    <<"B", "H", "_", "1", "9", "-", "3", "7", " ", "t", "i", "t", "l", "e">>,
    <<"1", "9", "-", "3", "7", " ", "t", "i", "t", "l", "e">>,
    <<"a", "u", "t", "h", "o", "r", " ", "-", " ", "t", "i", "t", "l", "e", " ", "-", " ", "1", "9", "-", "3", "7">>,
    <<"T", "h", "e", " ", "L", "a", "d", "y", " ", "o", "f", " ", "t", "h", "e", " ", "C", "a", "m", "e", "l", "l", "i", "a", "s", "_", "M", "P", "3", "W", "R", "A", "P">>,
    <<"a", "u", "t", "h", "o", "r", " ", "-", " ", "t", "i", "t", "l", "e", " ", "2", "0", "2", "5", "-", "1", "1", "-", "2", "7", " ", "w", "i", "t", "h", " ", "d", "a", "t", "e">>,
    <<"a", "u", "t", "h", "o", "r", " ", "-", " ", "t", "i", "t", "l", "e", " ", "1", "1", "-", "2", "7", "-", "2", "0", "2", "5", " ", "w", "i", "t", "h", " ", "d", "a", "t", "e">>,
    <<"a", "u", "t", "h", "o", "r", " ", "-", " ", "t", "i", "t", "l", "e", " ", "1", "1", "/", "2", "7", "/", "2", "0", "2", "5", " ", "w", "i", "t", "h", " ", "d", "a", "t", "e">>,
    <<"a", "u", "t", "h", "o", "r", " ", "-", " ", "t", "i", "t", "l", "e", " ", "1", "1", "/", "2", "7", "/", "2", "5", " ", "w", "i", "t", "h", " ", "d", "a", "t", "e">>,
    <<"a", "u", "t", "h", "o", "r", " ", "-", " ", "t", "i", "t", "l", "e", " ", "1", "1", ".", "2", "7", ".", "2", "0", "2", "5", " ", "w", "i", "t", "h", " ", "d", "a", "t", "e">>>>

Samples == <<
    <<" ", " ", "7", " ", " ">>,
    <<"0", "2", " ", "-", " ", "t", "i", "t", "l", "e">>,
    <<"0", "2", " ", "-", " ", "p", "a", "r", "t", " ", "7", "0", "0", "0", "0">>,
    <<"0", "3", " ", "-", " ", "2", " ", "o", "f", " ", "1", "3", " ", "-", " ", "p", "a", "r", "t", " ", "7", "0", "0", "0", "0">>,
    <<"t", "i", "t", "l", "e", "_", "2", "0", "2", "5", "-", "1", "1", "-", "2", "7">>,
    <<"t", "i", "t", "l", "e", "_", "p", "a", "r", "t", " ", "3">>,
    <<"C", "h", "a", "p", "t", "e", "r", " ", "5", "_", "t", "i", "t", "l", "e">>,
    <<"B", "o", "o", "k", " ", "3", " ", "-", " ", "B", "o", "o", "k", " ", "4", " ", "-", " ", "4">>,
    <<"x", " ", "7", "0", "0", "0", "0", " ", "o", "f", " ", "3", " ", "-", " ", "0", "2">>,
    <<"p", "a", "r", "t", " ", "2", "0", "2", "5", "-", "1", "1", "-", "2", "7">>>>

Atoms == <<
    <<"B", "o", "o", "k", " ", "3">>,
    <<"T", "r", "a", "c", "k", "#", "7">>,
    <<"p", "a", "r", "t", " ", "7", "0", "0", "0", "0">>,
    <<"2", " ", "o", "f", " ", "1", "3">>,
    <<"1", "1", "/", "2", "7", "/", "2", "5">>,
    <<"2", "0", "2", "5", "-", "1", "1", "-", "2", "7">>,
    <<"0", "2">>,
    <<"3">>,
    <<"7", "0", "0", "0", "0">>,
    <<"x", " ">>,
    <<" ", "x">>,
    <<" ">>,
    <<"-">>,
    <<"_">>>>

RECURSIVE Flatten(_, _)
Flatten(atoms, idx) ==
    IF idx = <<>> THEN <<>> ELSE atoms[Head(idx)] \o Flatten(atoms, Tail(idx))

\* The concatenations of at most k atoms.
Generated(k) ==
    {Flatten(Atoms, idx) : idx \in UNION {[1..m -> DOMAIN Atoms] : m \in 0..k}}

Listed == {TestInputs[i] : i \in DOMAIN TestInputs} \cup {Samples[i] : i \in DOMAIN Samples}

Str_Title == <<"T", "i", "t", "l", "e">>
Str_Author == <<"A", "u", "t", "h", "o", "r">>
Str_Series == <<"S", "e", "r", "i", "e", "s">>
Str_Series_3 == <<"S", "e", "r", "i", "e", "s", " ", "#", "3">>
Str_Series_0 == <<"S", "e", "r", "i", "e", "s", " ", "0">>
Str_Saga_150 == <<"S", "a", "g", "a", " ", "1", "5", "0">>
Str_Saga_70000 == <<"S", "a", "g", "a", " ", "7", "0", "0", "0", "0">>
Str_Author_Title == <<"A", "u", "t", "h", "o", "r", "/", "T", "i", "t", "l", "e">>
Str_slash == <<"/">>
Str_dash_Book == <<" ", "-", " ", "B", "o", "o", "k", " ">>
Str_dash == <<" ", "-", " ">>
Str_open == <<" ", "(">>
Str_close == <<")">>

\* The RawMetadata records: with and without series, authors and abridged, the
\* series with and without a book number (in range, zero, out of range), the first
\* author empty or not, abridged true or false.
Raws ==
    [title : {Str_Title},
     subtitle : {None},
     series : {None, Some(<<>>), Some(<<Str_Series>>), Some(<<Str_Series_3>>),
               Some(<<Str_Series_0>>), Some(<<Str_Saga_150>>), Some(<<Str_Saga_70000>>)},
     authors : {None, Some(<<Str_Author>>), Some(<<<<>>>>)},
     published_year : {None},
     published_date : {None},
     genres : {None},
     language : {None},
     abridged : {None, Some(TRUE), Some(FALSE)}]

\* A metadata file with a title and one author only.
RawAuthorTitle ==
    [title |-> Str_Title, subtitle |-> None, series |-> None,
     authors |-> Some(<<Str_Author>>), published_year |-> None,
     published_date |-> None, genres |-> None, language |-> None, abridged |-> None]

\* The default of Args.path_schema:
\* {{author}}/{{#if series}}{{series}}/{{/if}}{{title}}{{#if book_number_with_zeros}} - Book {{book_number_with_zeros}}{{/if}}
DefaultPathTemplate ==
    <<Var("author"), Lit(Str_slash), If("series"), Var("series"), Lit(Str_slash), EndIf,
      Var("title"), If("book_number_with_zeros"), Lit(Str_dash_Book),
      Var("book_number_with_zeros"), EndIf>>
\* The default of Args.file_schema:
\* {{#if series}}{{series}} - {{/if}}{{title}}{{#if file_number_with_zeros}} ({{file_number_with_zeros}}){{/if}}
DefaultFileTemplate ==
    <<If("series"), Var("series"), Lit(Str_dash), EndIf, Var("title"),
      If("file_number_with_zeros"), Lit(Str_open), Var("file_number_with_zeros"),
      Lit(Str_close), EndIf>>
\* {{author}}/{{#if series}}{{series}}/{{/if}}{{title}}
SeriesPathTemplate ==
    <<Var("author"), Lit(Str_slash), If("series"), Var("series"), Lit(Str_slash), EndIf,
      Var("title")>>

\* A block inside a block: {{#if abridged}}{{#if author}}{{series}}{{/if}}{{/if}}{{title}}
NestedTemplate ==
    <<If("abridged"), If("author"), Var("series"), EndIf, EndIf, Var("title")>>

\* The elements the generated templates are made of, at most MaxElems of them.
MaxElems == 3
Elems ==
    <<Lit(Str_slash), Var("author"), Var("series"), Var("title"),
      Var("book_number_with_zeros"), If("series"), If("author"), If("abridged"),
      If("book_number"), EndIf>>
Templates ==
    {DefaultPathTemplate, DefaultFileTemplate, SeriesPathTemplate, NestedTemplate} \cup
    {t \in UNION {[1..m -> {Elems[i] : i \in DOMAIN Elems}] : m \in 0..MaxElems} :
        WellFormed(t)}

\* The file types main falls back to, and those of the default of --file-types.
DefaultFileExt ==
    <<<<"m", "4", "b">>, <<"m", "4", "a">>, <<"m", "4", "p">>, <<"m", "p", "3">>,
      <<"a", "a">>, <<"a", "a", "x">>, <<"a", "a", "c">>, <<"o", "g", "g">>,
      <<"w", "m", "a">>, <<"w", "a", "v">>, <<"f", "l", "a", "c">>, <<"a", "l", "a", "c">>>>
\* ActionOpt
ActionOpts == {"None", "Move", "All"}
\* A file system with no source tree and nothing at the destination.
EmptyFs ==
    [src |-> <<>>, src_dirs |-> {}, dst |-> {}, dst_dirs |-> {},
     parent |-> [exists |-> FALSE, junk |-> FALSE], orig |-> <<>>, faults |-> 0]
\* No file of a directory is being named.
NoFiles == file_template = DefaultFileTemplate /\ files = <<>> /\ file_result = None
\* No batch is being run.
NoBatch ==
    /\ cfg = [action |-> "None", dry_run |-> FALSE, file_ext |-> DefaultFileExt]
    /\ found = <<>>
    /\ plans = <<>>
    /\ fs = EmptyFs

\* What reading the tag can give.
TagReadFailed == [read_ok |-> FALSE, has_tag |-> FALSE, track |-> None]
NoPrimaryTag == [read_ok |-> TRUE, has_tag |-> FALSE, track |-> None]
TagTrack(o) == [read_ok |-> TRUE, has_tag |-> TRUE, track |-> o]
TrackValues == {0, 1, 7, 255, 256, 65535, 65536, 65543, 131074}
Tags ==
    {TagReadFailed, NoPrimaryTag, TagTrack(None)} \cup {TagTrack(Some(t)) : t \in TrackValues}

(***************************************************************************)
(* The specification of the file-number inference: one call of             *)
(* get_track_number on one file.                                           *)
(***************************************************************************)
InitTrack ==
    /\ pc = "call"
    /\ file_number = None
    /\ \/ file_stem \in Generated(MaxSegs) /\ tag = TagReadFailed
       \/ file_stem \in Generated(MaxSegs - 1) \cup Listed /\ tag \in Tags
    /\ metadata = ParseMetadata(RawAuthorTitle)
    /\ path_template = DefaultPathTemplate
    /\ path_result = None
    /\ NoFiles
    /\ NoBatch

\* let file_number = get_track_number(&file_name)
CallGetTrackNumber ==
    /\ pc = "call"
    /\ file_number' = GetTrackNumber(file_stem, tag)
    /\ pc' = "done"
    /\ UNCHANGED <<file_stem, tag, metadata, path_template, path_result>>
    /\ UNCHANGED <<fileVars, batchVars>>

NextTrack == CallGetTrackNumber

SpecTrack == InitTrack /\ [][NextTrack]_vars

(***************************************************************************)
(* The specification of the path rendering: one call of Schema::fmt_path   *)
(* on the Metadata parse_metadata built, as plan makes it.                 *)
(***************************************************************************)
InitRender ==
    /\ pc = "call"
    /\ file_stem = <<>>
    /\ tag = TagReadFailed
    /\ file_number = None
    /\ metadata \in {ParseMetadata(raw) : raw \in Raws}
    /\ path_template \in Templates
    /\ path_result = None
    /\ NoFiles
    /\ NoBatch

\* schema.fmt_path(&mut metadata)
CallFmtPath ==
    /\ pc = "call"
    /\ metadata' = FmtPathMetadata(metadata)
    /\ path_result' = Some(FmtPath(path_template, metadata))
    /\ pc' = "done"
    /\ UNCHANGED <<trackVars, path_template, fileVars, batchVars>>

NextRender == CallFmtPath

SpecRender == InitRender /\ [][NextRender]_vars

(***************************************************************************)
(* The specification of the naming of one directory's files: plan's call   *)
(* of fmt_path on the directory's Metadata, then run's (or dry_run's)      *)
(* calls of fmt_file on the same Metadata, one for each file get_files     *)
(* gave.  A file has a name, the tag embedded in it (own) and what         *)
(* Probe::open gives for its stem taken as a path (probed).                *)
(***************************************************************************)
File(name, own, probed) == [name |-> name, own |-> own, probed |-> probed]
Name_02_title_mp3 == <<"0", "2", " ", "-", " ", "t", "i", "t", "l", "e", ".", "m", "p", "3">>
Name_0_x_mp3 == <<"0", " ", "-", " ", "x", ".", "m", "p", "3">>
Name_Book3_title_m4b == <<"B", "o", "o", "k", " ", "3", " ", "-", " ", "t", "i", "t", "l", "e", ".", "m", "4", "b">>
Name_01_flac_mp3 == <<"0", "1", ".", "f", "l", "a", "c", ".", "m", "p", "3">>
Name_cover_jpg == <<"c", "o", "v", "e", "r", ".", "j", "p", "g">>
Name_metadata_json == <<"m", "e", "t", "a", "d", "a", "t", "a", ".", "j", "s", "o", "n">>
Name_DS_Store == <<".", "D", "S", "_", "S", "t", "o", "r", "e">>
Name_intro_mp3 == <<"i", "n", "t", "r", "o", ".", "m", "p", "3">>
Name_outro_mp3 == <<"o", "u", "t", "r", "o", ".", "m", "p", "3">>
Name_03_title_MP3 == <<"0", "3", " ", "-", " ", "t", "i", "t", "l", "e", ".", "M", "P", "3">>
Str_space == <<" ">>

\* The files a directory is made of.
FilePalette ==
    {File(Name_02_title_mp3, TagTrack(Some(5)), TagReadFailed),
     File(Name_0_x_mp3, NoPrimaryTag, TagReadFailed),
     File(Name_Book3_title_m4b, TagTrack(None), TagReadFailed),
     File(Name_01_flac_mp3, TagTrack(Some(1)), TagTrack(Some(9))),
     File(Name_cover_jpg, TagReadFailed, TagReadFailed),
     File(Name_metadata_json, TagReadFailed, TagReadFailed),
     File(Name_DS_Store, TagReadFailed, TagReadFailed),
     File(Name_03_title_MP3, TagTrack(Some(3)), TagReadFailed)}
MaxFiles == 2
FileLists == UNION {[1..m -> FilePalette] : m \in 0..MaxFiles}

\* {{#if file_number}}{{file_number_with_zeros}} {{/if}}{{title}}
NumberedFileTemplate ==
    <<If("file_number"), Var("file_number_with_zeros"), Lit(Str_space), EndIf,
      Var("title")>>
\* {{title}} {{file_number_with_zeros}}
StrictFileTemplate == <<Var("title"), Lit(Str_space), Var("file_number_with_zeros")>>
\* {{#if abridged}}{{abridged}} {{/if}}{{#if book_number}}{{book_number}} {{/if}}{{#if author}}{{author}} {{/if}}{{title}}
GuardedFileTemplate ==
    <<If("abridged"), Var("abridged"), Lit(Str_space), EndIf,
      If("book_number"), Var("book_number"), Lit(Str_space), EndIf,
      If("author"), Var("author"), Lit(Str_space), EndIf, Var("title")>>
FileTemplates ==
    {DefaultFileTemplate, NumberedFileTemplate, StrictFileTemplate, GuardedFileTemplate}
\* {{#if abridged}}{{abridged}}/{{/if}}{{#if book_number}}{{book_number}}/{{/if}}{{#if author}}{{author}}/{{/if}}{{title}}
GuardedPathTemplate ==
    <<If("abridged"), Var("abridged"), Lit(Str_slash), EndIf,
      If("book_number"), Var("book_number"), Lit(Str_slash), EndIf,
      If("author"), Var("author"), Lit(Str_slash), EndIf, Var("title")>>

\* The metadata files of the directories that are named.
FileRaws ==
    {r \in Raws : /\ r.authors # None
                  /\ r.series \in {None, Some(<<Str_Series_3>>), Some(<<Str_Series_0>>)}
                  /\ (r.authors = Some(<<<<>>>>) => r.abridged = Some(FALSE))}

InitFile ==
    /\ pc = "call"
    /\ file_stem = <<>>
    /\ tag = TagReadFailed
    /\ file_number = None
    /\ metadata \in {ParseMetadata(raw) : raw \in FileRaws}
    /\ path_template \in {DefaultPathTemplate, GuardedPathTemplate}
    /\ path_result = None
    /\ file_template \in FileTemplates
    /\ files \in FileLists
    /\ file_result = None
    /\ NoBatch

\* schema.fmt_file(&mut action.metadata, &file, &cfg.file_ext).unwrap(), for the
\* next file of the directory whose path was rendered.
CallFmtFile ==
    /\ pc = "done"
    /\ IsSome(path_result) /\ IsOk(Unwrap(path_result))
    /\ files # <<>>
    /\ \E r \in {FmtFile(file_template, metadata, Head(files).name, cfg.file_ext,
                         Head(files).probed)} :
          /\ file_result' = Some([file |-> Head(files), before |-> metadata, ret |-> r])
          /\ metadata' = r.metadata
          /\ pc' = IF r.fault = "" THEN "done" ELSE "panic"
    /\ files' = Tail(files)
    /\ UNCHANGED <<trackVars, path_template, path_result, file_template, batchVars>>

NextFile == CallFmtPath \/ CallFmtFile

SpecFile == InitFile /\ [][NextFile]_vars

(***************************************************************************)
(* The same calls on a directory whose book number and whose one file's    *)
(* number run over small and large values: the file is named by its        *)
(* number alone.                                                           *)
(***************************************************************************)
MaxPad == 12
PadValues == 0..MaxPad \cup {99, 100, 150, 999, 1000, 9999, 10000, 65535}
Str_mp3 == <<".", "m", "p", "3">>

InitPad ==
    /\ pc = "call"
    /\ file_stem = <<>>
    /\ tag = TagReadFailed
    /\ file_number = None
    /\ \E n \in PadValues :
          metadata = [ParseMetadata(RawAuthorTitle) EXCEPT !["book_number"] = Some(NumVal(n))]
    /\ path_template = DefaultPathTemplate
    /\ path_result = None
    /\ file_template = DefaultFileTemplate
    /\ \E m \in PadValues :
          files = <<File(Decimal(m) \o Str_mp3, TagReadFailed, TagReadFailed)>>
    /\ file_result = None
    /\ NoBatch

SpecPad == InitPad /\ [][NextFile]_vars

(***************************************************************************)
(* The file system.  src[d] lists the files that lie in the source         *)
(* directory d (as WalkDir gives them), src_dirs the source directories    *)
(* that exist; dst holds the files of the destination, each with the       *)
(* directory and name it has and the source file its content came from;    *)
(* dst_dirs the destination directories; parent the directory above the    *)
(* source directories (junk: it holds a .DS_Store).  orig is src as it was *)
(* when the program started, faults counts the operations the system has   *)
(* refused, at most MaxFaults of them.                                     *)
(***************************************************************************)
MaxFaults == 1
\* Whether the next operation succeeds.
Outcomes(f) == IF f.faults < MaxFaults THEN {TRUE, FALSE} ELSE {TRUE}
Refused(f) == [f EXCEPT !.faults = @ + 1]
\* fs::exists(&action.to)
DirExists(f, to) == to \in f.dst_dirs
\* fs::create_dir_all(&action.to)
CreateDirAll(f, to, ok) ==
    IF ok THEN [f EXCEPT !.dst_dirs = @ \cup {to}] ELSE Refused(f)
Without(list, file) == SelectSeq(list, LAMBDA x : x # file)
\* The destination with a file written at to/name, over what was there.
Written(dst, to, name, content) ==
    {e \in dst : ~(e.to = to /\ e.name = name)}
        \cup {[to |-> to, name |-> name, content |-> content]}
\* fs::copy(&file, &destination_path): fails when the directory is not there.
CopyFile(f, d, file, to, name, ok) ==
    IF ~DirExists(f, to) THEN f
    ELSE IF ok THEN [f EXCEPT !.dst = Written(@, to, name, <<d, file.name>>)]
         ELSE Refused(f)
\* fs::rename(&file, &destination_path)
RenameFile(f, d, file, to, name, ok) ==
    IF ~DirExists(f, to) THEN f
    ELSE IF ok THEN [f EXCEPT !.src[d] = Without(@, file),
                              !.dst = Written(@, to, name, <<d, file.name>>)]
         ELSE Refused(f)
\* fs::remove_dir_all(&action.from)
RemoveDirAll(f, d, ok) ==
    IF ok THEN [f EXCEPT !.src[d] = <<>>, !.src_dirs = @ \ {d}] ELSE Refused(f)
\* fs::remove_file(p.join(".DS_Store")).unwrap_or(()); fs::remove_dir(p), which
\* succeeds when p is empty.
CleanParent(f) ==
    [f EXCEPT !.parent = [exists |-> @.exists /\ f.src_dirs # {}, junk |-> FALSE]]

(***************************************************************************)
(* The specification of a whole run of main: plan walks the source tree    *)
(* and makes a Plan of every directory with a metadata file whose path     *)
(* renders; run (or dry_run, with --dry-run) takes the plans in order:     *)
(* the destination directory, then every file of the source directory,     *)
(* then the removal of the source directory with action All.               *)
(***************************************************************************)
\* A source directory with a metadata file: meta tells whether the file can be
\* read and parsed, raw is what it holds, files are the files of the directory.
Book(meta, raw, list) == [meta |-> meta, raw |-> raw, files |-> list]
RawSeries3 == [RawAuthorTitle EXCEPT !.series = Some(<<Str_Series_3>>)]
RawNoAuthor == [RawAuthorTitle EXCEPT !.authors = None]
BookPalette ==
    {Book("ok", RawAuthorTitle,
          <<File(Name_02_title_mp3, TagTrack(Some(5)), TagReadFailed),
            File(Name_metadata_json, TagReadFailed, TagReadFailed)>>),
     Book("ok", RawSeries3,
          <<File(Name_Book3_title_m4b, TagTrack(None), TagReadFailed),
            File(Name_cover_jpg, TagReadFailed, TagReadFailed)>>),
     Book("ok", RawNoAuthor, <<File(Name_0_x_mp3, NoPrimaryTag, TagReadFailed)>>),
     Book("ok", RawAuthorTitle,
          <<File(Name_intro_mp3, TagTrack(None), TagReadFailed),
            File(Name_outro_mp3, TagTrack(None), TagReadFailed)>>),
     Book("invalid", RawAuthorTitle,
          <<File(Name_02_title_mp3, TagTrack(Some(5)), TagReadFailed)>>),
     Book("unreadable", RawAuthorTitle,
          <<File(Name_02_title_mp3, TagTrack(Some(5)), TagReadFailed)>>)}
MaxBooks == 2
BookLists == UNION {[1..m -> BookPalette] : m \in 0..MaxBooks}

\* main: dry_run(&schema, plan_list) with --dry-run, run(&schema, plan_list)
\* without.
Dispatch_AlwaysRun(c) == "run"

Dispatch(c) == IF c.dry_run THEN "dry_run" ELSE "run"

\* run: a file is moved with the actions Move and All, copied with None.
Transfer_AlwaysMove(f, action, d, file, to, name, ok) ==
    RenameFile(f, d, file, to, name, ok)

Transfer(f, action, d, file, to, name, ok) ==
    IF action = "All" \/ action = "Move"
    THEN RenameFile(f, d, file, to, name, ok)
    ELSE CopyFile(f, d, file, to, name, ok)

\* run: with All the source directory is removed, then the junk of its parent
\* and the parent if it is empty.
Cleanup(f, action, d, ok) ==
    IF action = "All" THEN CleanParent(RemoveDirAll(f, d, ok)) ELSE f

InitBatch ==
    /\ pc = "plan"
    /\ file_stem = <<>>
    /\ tag = TagReadFailed
    /\ file_number = None
    /\ metadata = ParseMetadata(RawAuthorTitle)
    /\ path_template = DefaultPathTemplate
    /\ path_result = None
    /\ file_template \in {DefaultFileTemplate, StrictFileTemplate}
    /\ files = <<>>
    /\ file_result = None
    /\ cfg \in [action : ActionOpts, dry_run : BOOLEAN, file_ext : {DefaultFileExt}]
    /\ \E books \in BookLists :
          /\ found = [i \in DOMAIN books |-> [dir |-> i, book |-> books[i]]]
          /\ fs = [src |-> [i \in DOMAIN books |-> books[i].files],
                   src_dirs |-> DOMAIN books,
                   dst |-> {},
                   dst_dirs |-> {},
                   parent |-> [exists |-> TRUE, junk |-> TRUE],
                   orig |-> [i \in DOMAIN books |-> books[i].files],
                   faults |-> 0]
    /\ plans = <<>>

\* plan: the next metadata file WalkDir gives.  A file that cannot be read ends
\* the process (exit(1)), one that cannot be parsed and one whose path does not
\* render are passed over.
PlanEntry ==
    /\ pc = "plan"
    /\ found # <<>>
    /\ found' = Tail(found)
    /\ \E md \in {ParseMetadata(Head(found).book.raw)} :
          IF Head(found).book.meta = "unreadable"
          THEN pc' = "exit" /\ UNCHANGED <<metadata, path_result, plans>>
          ELSE IF Head(found).book.meta = "invalid"
               THEN UNCHANGED <<pc, metadata, path_result, plans>>
               ELSE /\ metadata' = FmtPathMetadata(md)
                    /\ path_result' = Some(FmtPath(path_template, md))
                    /\ plans' = IF IsOk(FmtPath(path_template, md))
                                THEN Append(plans,
                                            [from |-> Head(found).dir,
                                             to |-> FmtPath(path_template, md).out,
                                             metadata |-> FmtPathMetadata(md),
                                             action |-> cfg.action])
                                ELSE plans
                    /\ pc' = pc
    /\ UNCHANGED <<trackVars, path_template, fileVars, cfg, fs>>

\* plan returns; main calls dry_run or run.
PlanReturn ==
    /\ pc = "plan"
    /\ found = <<>>
    /\ pc' = Dispatch(cfg)
    /\ UNCHANGED <<trackVars, metadata, path_template, path_result, fileVars, cfg,
                   found, plans, fs>>

\* run: the next action; its directory is created when it is not there, and the
\* files of its source directory are listed.
RunBegin ==
    /\ pc = "run"
    /\ plans # <<>>
    /\ \E ok \in Outcomes(fs) :
          fs' = IF DirExists(fs, Head(plans).to) THEN fs
                ELSE CreateDirAll(fs, Head(plans).to, ok)
    /\ files' = fs.src[Head(plans).from]
    /\ metadata' = Head(plans).metadata
    /\ pc' = "run_files"
    /\ UNCHANGED <<trackVars, path_template, path_result, file_template, file_result,
                   cfg, found, plans>>

\* run: the next file is named by fmt_file (whose failure is a panic) and moved
\* or copied.
RunFile ==
    /\ pc = "run_files"
    /\ files # <<>>
    /\ \E r \in {FmtFile(file_template, metadata, Head(files).name, cfg.file_ext,
                         Head(files).probed)} :
          /\ file_result' = Some([file |-> Head(files), before |-> metadata, ret |-> r])
          /\ metadata' = r.metadata
          /\ IF r.fault # ""
             THEN pc' = "panic" /\ fs' = fs
             ELSE /\ pc' = pc
                  /\ \E ok \in Outcomes(fs) :
                        fs' = Transfer(fs, Head(plans).action, Head(plans).from,
                                       Head(files), Head(plans).to, r.result.out, ok)
    /\ files' = Tail(files)
    /\ UNCHANGED <<trackVars, path_template, path_result, file_template, cfg, found,
                   plans>>

\* run: the files of the action are done.
RunEnd ==
    /\ pc = "run_files"
    /\ files = <<>>
    /\ \E ok \in Outcomes(fs) :
          fs' = Cleanup(fs, Head(plans).action, Head(plans).from, ok)
    /\ plans' = Tail(plans)
    /\ pc' = "run"
    /\ UNCHANGED <<trackVars, metadata, path_template, path_result, fileVars, cfg,
                   found>>

\* dry_run: the next action, reported only.
DryBegin ==
    /\ pc = "dry_run"
    /\ plans # <<>>
    /\ files' = fs.src[Head(plans).from]
    /\ metadata' = Head(plans).metadata
    /\ pc' = "dry_files"
    /\ UNCHANGED <<trackVars, path_template, path_result, file_template, file_result,
                   cfg, found, plans, fs>>

\* dry_run: the next file is named by fmt_file and reported.
DryFile ==
    /\ pc = "dry_files"
    /\ files # <<>>
    /\ \E r \in {FmtFile(file_template, metadata, Head(files).name, cfg.file_ext,
                         Head(files).probed)} :
          /\ file_result' = Some([file |-> Head(files), before |-> metadata, ret |-> r])
          /\ metadata' = r.metadata
          /\ pc' = IF r.fault # "" THEN "panic" ELSE pc
    /\ files' = Tail(files)
    /\ UNCHANGED <<trackVars, path_template, path_result, file_template, cfg, found,
                   plans, fs>>

\* dry_run: the files of the action are done.
DryEnd ==
    /\ pc = "dry_files"
    /\ files = <<>>
    /\ plans' = Tail(plans)
    /\ pc' = "dry_run"
    /\ UNCHANGED <<trackVars, metadata, path_template, path_result, fileVars, cfg,
                   found, fs>>

\* run or dry_run returns: main prints "Finished!".
Finish ==
    /\ pc \in {"run", "dry_run"}
    /\ plans = <<>>
    /\ pc' = "finished"
    /\ UNCHANGED <<trackVars, metadata, path_template, path_result, fileVars,
                   batchVars>>

NextBatch ==
    \/ PlanEntry
    \/ PlanReturn
    \/ RunBegin
    \/ RunFile
    \/ RunEnd
    \/ DryBegin
    \/ DryFile
    \/ DryEnd
    \/ Finish

SpecBatch == InitBatch /\ [][NextBatch]_vars

(***************************************************************************)
(* Notions the claims are stated with.                                     *)
(***************************************************************************)
\* The ordinal the tag reader supplies: absent when the read fails, when the
\* file has no tag and when the tag has no track number.
TagOrdinal(t) == IF t.read_ok /\ t.has_tag THEN t.track ELSE None
AbsentOrZero(t) == TagOrdinal(t) = None \/ TagOrdinal(t) = Some(0)
\* get_track_number has returned the result of the filename cascade.
ParsedFromName == pc = "done" /\ AbsentOrZero(tag)

\* The number a rule's regex captures in group g of its first match, when it
\* matches and the number is in the u16 range.
Candidate(re, g, s) ==
    LET m == Captures(re, s) IN IF m.ok THEN ParseGroup(m, g) ELSE None
\* The rule's first match captures a digit run that is out of range.
Overflows(re, g, s) ==
    LET m == Captures(re, s) IN m.ok /\ ParseGroup(m, g) = None
\* The candidates of the six rules in priority order, None for a rule without a
\* candidate that is in range and (rules c-g) not in the ignore set.
ValidCandidates(s) ==
    LET ign == IgnoreList(s)
        NotIgnored(c) == IF IsSome(c) /\ Contains(ign, Unwrap(c)) THEN None ELSE c
    IN  <<Candidate(re_context, 2, s),
          NotIgnored(Candidate(re_of, 1, s)),
          NotIgnored(Candidate(re_start, 1, s)),
          NotIgnored(Candidate(re_track_total, 1, s)),
          NotIgnored(Candidate(re_suffix, 1, s)),
          NotIgnored(Candidate(re_solo, 1, s))>>
\* The first candidate of a sequence of optional candidates.
FirstValid(cands) ==
    LET I == {i \in DOMAIN cands : IsSome(cands[i])}
    IN  IF I = {} THEN None ELSE cands[CHOOSE i \in I : \A j \in I : i <= j]
NumValid(cands) == Cardinality({i \in DOMAIN cands : IsSome(cands[i])})

\* The maximal digit runs of s, as <<first, last>> positions, left to right.
RECURSIVE DigitRunsFrom(_, _)
DigitRunsFrom(s, pos) ==
    IF pos > Len(s) THEN <<>>
    ELSE IF s[pos] \in Digit
         THEN LET n == RunLen(Digit, s, pos, Len(s))
              IN  <<<<pos, pos + n - 1>>>> \o DigitRunsFrom(s, pos + n)
         ELSE DigitRunsFrom(s, pos + 1)
DigitRuns(s) == DigitRunsFrom(s, 1)

\* The character of s at pos, "" outside s.
CharAt(s, pos) == IF pos >= 1 /\ pos <= Len(s) THEN s[pos] ELSE ""
Alnum == Alpha \cup Digit

Keywords == {Str_section, Str_chapter, Str_part, Str_track}
\* A keyword stands at p (not inside a longer alphanumeric word), followed by
\* optional whitespace, an optional '#', optional whitespace and a digit run that
\* ends the alphanumeric word: the number of that digit run when in range.
KeywordNumberAt(s, p) ==
    IF \E w \in Keywords : LitAt(w, s, p) /\ CharAt(s, p - 1) \notin Alnum
    THEN LET w == CHOOSE w \in Keywords : LitAt(w, s, p)
             q1 == p + Len(w) + RunLen(Space, s, p + Len(w), Len(s))
             q2 == IF CharAt(s, q1) = "#" THEN q1 + 1 ELSE q1
             q3 == q2 + RunLen(Space, s, q2, Len(s))
             d  == RunLen(Digit, s, q3, Len(s))
         IN  IF d > 0 /\ CharAt(s, q3 + d) \notin Alpha
             THEN <<ParseU16(SubSeq(s, q3, q3 + d - 1))>>
             ELSE <<>>
    ELSE <<>>
\* The positions of the keywords that a number follows.
KeywordPositions(s) == {p \in 1..Len(s) : KeywordNumberAt(s, p) # <<>>}
FirstKeywordPosition(s) ==
    CHOOSE p \in KeywordPositions(s) : \A q \in KeywordPositions(s) : p <= q

\* The only digit runs of s are the three components of one date: ISO (4 digits,
\* then two parts of 1-2 digits), common (two parts of 1-2 digits, then 4 digits)
\* or short (two parts of 1-2 digits, then 2 digits), joined by '-', '/' or '.';
\* the date is not glued to a letter and no keyword with a number is in s.
RunLength(r) == r[2] - r[1] + 1
DateOnly(s) ==
    LET runs == DigitRuns(s)
    IN  /\ Len(runs) = 3
        /\ runs[2][1] = runs[1][2] + 2 /\ s[runs[1][2] + 1] \in DateSep
        /\ runs[3][1] = runs[2][2] + 2 /\ s[runs[2][2] + 1] \in DateSep
        /\ LET a == RunLength(runs[1])
               b == RunLength(runs[2])
               c == RunLength(runs[3])
           IN  \/ a = 4 /\ b \in 1..2 /\ c \in 1..2
               \/ a \in 1..2 /\ b \in 1..2 /\ c = 4
               \/ a \in 1..2 /\ b \in 1..2 /\ c = 2
        /\ CharAt(s, runs[1][1] - 1) \notin Alpha
        /\ CharAt(s, runs[3][2] + 1) \notin Alpha
        /\ KeywordPositions(s) = {}

\* The last position at or before pos that holds no whitespace (0 when none), and
\* the first such position at or after pos (Len(s) + 1 when none).
RECURSIVE SkipBack(_, _)
SkipBack(s, pos) ==
    IF pos >= 1 /\ s[pos] \in Space THEN SkipBack(s, pos - 1) ELSE pos
SkipForward(s, pos) == pos + RunLen(Space, s, pos, Len(s))

\* The text before pos, whitespace skipped, ends with a keyword.
AfterKeyword(s, pos) ==
    LET e == SkipBack(s, pos - 1)
    IN  \E w \in Keywords : e - Len(w) + 1 >= 1 /\ LitAt(w, s, e - Len(w) + 1)

\* The only digit run of s stands in the middle of the text, between words and
\* spaces: the nearest characters that are not whitespace are letters on both
\* sides, and the text before it does not end with a keyword.
EmbeddedOnly(s) ==
    LET runs == DigitRuns(s)
    IN  /\ Len(runs) = 1
        /\ CharAt(s, SkipBack(s, runs[1][1] - 1)) \in Alpha
        /\ CharAt(s, SkipForward(s, runs[1][2] + 1)) \in Alpha
        /\ ~AfterKeyword(s, runs[1][1])

Name_02_title == <<"0", "2", " ", "-", " ", "t", "i", "t", "l", "e">>
Name_Book3_title == <<"B", "o", "o", "k", " ", "3", " ", "-", " ", "t", "i", "t", "l", "e">>
Name_Book3_title_02 == <<"B", "o", "o", "k", " ", "3", " ", "-", " ", "t", "i", "t", "l", "e", " ", "-", " ", "0", "2">>

(***************************************************************************)
(* The claims.                                                             *)
(***************************************************************************)

\* C1: whatever the file name contains, a tag ordinal t with 1 <= t <= 65535
\* is returned as it is by get_track_number; the filename cascade is not consulted.
C1_TagOrdinalReturned ==
    (pc = "done" /\ IsSome(TagOrdinal(tag))
        /\ Unwrap(TagOrdinal(tag)) >= 1 /\ Unwrap(TagOrdinal(tag)) <= U16Max)
    => file_number = TagOrdinal(tag)

\* C1's case: a tag ordinal in range was returned for a file name from which the
\* cascade infers another number.
C1_Witness ==
    /\ pc = "done"
    /\ IsSome(TagOrdinal(tag))
    /\ Unwrap(TagOrdinal(tag)) \in 256..U16Max
    /\ file_number = TagOrdinal(tag)
    /\ IsSome(ParseFromFilename(file_stem))
    /\ ParseFromFilename(file_stem) # file_number

C4_EarliestRuleWins ==
    (ParsedFromName /\ NumValid(ValidCandidates(file_stem)) >= 2)
    => file_number = FirstValid(ValidCandidates(file_stem))

\* C5: without an explicit-context match, parse_from_filename never returns a
\* number of the ignore list built for the call, and returns None when every rule
\* that matches captures an ignored (or out of range) number; "Book 3 - title"
\* gives None and "Book 3 - title - 02" gives 2.
C5_IgnoredNeverReturned ==
    /\ (ParsedFromName /\ ~Captures(re_context, file_stem).ok)
       => LET ign == IgnoreList(file_stem)
          IN  /\ IsSome(file_number) => ~Contains(ign, Unwrap(file_number))
              /\ (\A i \in DOMAIN CascadeRules :
                    LET c == Candidate(CascadeRules[i], 1, file_stem)
                    IN  IsSome(c) => Contains(ign, Unwrap(c)))
                 => file_number = None
    /\ (ParsedFromName /\ file_stem = Name_Book3_title) => file_number = None
    /\ (ParsedFromName /\ file_stem = Name_Book3_title_02) => file_number = Some(2)

\* C5's case: a rule matched a number of the ignore list, which was passed over,
\* and a later rule gave the result.
C5_Witness ==
    /\ ParsedFromName
    /\ ~Captures(re_context, file_stem).ok
    /\ \E i \in DOMAIN CascadeRules :
          LET c == Candidate(CascadeRules[i], 1, file_stem)
          IN  IsSome(c) /\ Contains(IgnoreList(file_stem), Unwrap(c))
    /\ IsSome(file_number)

\* C6: when the only digit runs of the name are the three components of one date,
\* parse_from_filename returns None, whatever text surrounds the date.
C6_DateNeverReturned ==
    (ParsedFromName /\ DateOnly(file_stem)) => file_number = None

\* C7: a name whose only digit run stands in the middle of the text between
\* spaces and words (not first, not last, not after a keyword) gives None.
C7_EmbeddedNumberIsNone ==
    (ParsedFromName /\ EmbeddedOnly(file_stem)) => file_number = None

\* C7's case: a number between two words, a space on each side of it.
C7_Witness ==
    /\ ParsedFromName
    /\ EmbeddedOnly(file_stem)
    /\ LET r == DigitRuns(file_stem)[1]
       IN  file_stem[r[1] - 1] = " " /\ file_stem[r[2] + 1] = " "
    /\ file_number = None

\* C8: a digit run out of the u16 range makes only the rule that matched it a
\* non-match, explicit context included: the result is the candidate of the first
\* of the six rules that has one in range (and not ignored).
C8_OverflowIsNonMatch ==
    (ParsedFromName
        /\ \/ Overflows(re_context, 2, file_stem)
           \/ \E i \in DOMAIN CascadeRules : Overflows(CascadeRules[i], 1, file_stem))
    => file_number = FirstValid(ValidCandidates(file_stem))

(***************************************************************************)
(* Notions the rendering claims are stated with.                           *)
(***************************************************************************)
\* The number of blocks open before element i.
Depth(tpl, i) ==
    Cardinality({j \in 1..(i - 1) : tpl[j].k = "if"})
        - Cardinality({j \in 1..(i - 1) : tpl[j].k = "endif"})
\* The {{#if}} at j is still open at element i.
Encloses(tpl, j, i) ==
    /\ j < i
    /\ tpl[j].k = "if"
    /\ \A k \in (j + 1)..i : Depth(tpl, k) > Depth(tpl, j)
Absent(md, f) == f \notin Fields \/ md[f] = None
\* The guard of a block holds: the field is present and is not the empty
\* string, zero or false.
GuardHolds(md, f) ==
    /\ ~Absent(md, f)
    /\ md[f] \notin {Some(StrVal(<<>>)), Some(NumVal(0)), Some(BoolVal(FALSE))}
\* The {{field}} elements outside every block.
OutsideVars(tpl) == {i \in DOMAIN tpl : tpl[i].k = "var" /\ Depth(tpl, i) = 0}
\* The {{field}} elements all of whose enclosing guards hold.
LiveVars(tpl, md) ==
    {i \in DOMAIN tpl : /\ tpl[i].k = "var"
                        /\ \A j \in 1..(i - 1) :
                              Encloses(tpl, j, i) => GuardHolds(md, tpl[j].f)}
AbsentOutside == {i \in OutsideVars(path_template) : Absent(metadata, path_template[i].f)}
AbsentLive ==
    {i \in LiveVars(path_template, metadata) : Absent(metadata, path_template[i].f)}
Min(S) == CHOOSE x \in S : \A y \in S : x <= y
Rendered == pc = "done" /\ IsSome(path_result)
Result == Unwrap(path_result)

\* No block inside a block.
Flat(tpl) == \A i \in DOMAIN tpl : tpl[i].k = "if" => Depth(tpl, i) = 0
IndexOf(tpl, kind) == Min({i \in DOMAIN tpl : tpl[i].k = kind})
\* What a run of text and present fields writes.
RECURSIVE TextOf(_, _)
TextOf(tpl, md) ==
    IF tpl = <<>> THEN <<>>
    ELSE LET e == tpl[1]
         IN  (CASE e.k = "lit" -> e.s
                [] e.k = "var" -> IF Absent(md, e.f) THEN <<>>
                                  ELSE ToText(Unwrap(md[e.f]))
                [] OTHER -> <<>>) \o TextOf(Tail(tpl), md)
\* What a flat template writes when a block is included exactly if its guard
\* is present (byPresence) or holds (otherwise).
RECURSIVE Expected(_, _, _)
Expected(tpl, md, byPresence) ==
    IF \A i \in DOMAIN tpl : tpl[i].k # "if" THEN TextOf(tpl, md)
    ELSE LET i == IndexOf(tpl, "if")
             j == IndexOf(tpl, "endif")
             included == IF byPresence THEN ~Absent(md, tpl[i].f)
                         ELSE GuardHolds(md, tpl[i].f)
         IN  TextOf(SubSeq(tpl, 1, i - 1), md)
               \o (IF included THEN TextOf(SubSeq(tpl, i + 1, j - 1), md) ELSE <<>>)
               \o Expected(SubSeq(tpl, j + 1, Len(tpl)), md, byPresence)
\* Every block of the template has an absent guard.
EveryGuardAbsent ==
    \A i \in DOMAIN path_template :
        path_template[i].k = "if" => Absent(metadata, path_template[i].f)

\* C9: (as stated) fmt_path returns Err naming an absent field referenced outside
\* every {{#if}} block, and returns Ok when every field referenced outside the
\* blocks is present.
C9_ErrIffAbsentOutside ==
    Rendered =>
        /\ AbsentOutside # {} =>
              ~IsOk(Result) /\ \E i \in AbsentOutside : Result.field = path_template[i].f
        /\ AbsentOutside = {} => IsOk(Result)

\* C9: (amended) fmt_path returns Err naming the first absent field that is
\* referenced outside every {{#if}} block or inside blocks whose guards all hold,
\* and returns Ok when there is no such field; an absent field referenced outside
\* the blocks always gives Err.
C9_ErrIffAbsentLive ==
    Rendered =>
        /\ AbsentLive # {} =>
              ~IsOk(Result) /\ Result.field = path_template[Min(AbsentLive)].f
        /\ AbsentLive = {} => IsOk(Result)
        /\ AbsentOutside # {} => ~IsOk(Result)
C9_Witness ==
    /\ Rendered
    /\ AbsentOutside # {}
    /\ ~IsOk(Result)
    /\ Result.field = path_template[Min(AbsentOutside)].f
    /\ \E i \in DOMAIN path_template : path_template[i].k = "if"

\* C10: (as stated) a {{#if field}} block contributes its content when the field
\* is present and nothing, without an error, when it is absent.
C10_BlockByPresence ==
    (Rendered /\ Flat(path_template)) =>
        /\ IsOk(Result) => Result.out = Expected(path_template, metadata, TRUE)
        /\ (AbsentOutside = {} /\ EveryGuardAbsent) => IsOk(Result)

\* C10: (amended) a {{#if field}} block contributes its content when the field is
\* present and is not the empty string, zero or false, and nothing, without an
\* error, otherwise; {{author}}/{{#if series}}{{series}}/{{/if}}{{title}} without
\* a series gives "Author/Title".
C10_BlockByGuard ==
    (Rendered /\ Flat(path_template)) =>
        /\ IsOk(Result) => Result.out = Expected(path_template, metadata, FALSE)
        /\ (AbsentOutside = {}
              /\ \A i \in DOMAIN path_template :
                    path_template[i].k = "if" => ~GuardHolds(metadata, path_template[i].f))
              => IsOk(Result)
        /\ (/\ path_template = SeriesPathTemplate
            /\ metadata["author"] = Some(StrVal(Str_Author))
            /\ metadata["title"] = Some(StrVal(Str_Title))
            /\ Absent(metadata, "series"))
              => Result = Ok(Str_Author_Title)
C10_Witness ==
    /\ Rendered
    /\ path_template = SeriesPathTemplate
    /\ Absent(metadata, "series")
    /\ Result = Ok(Str_Author_Title)

(***************************************************************************)
(* Notions of the claims about 'book' markers and large tag ordinals.      *)
(***************************************************************************)
\* The numbers (in range) that follow a 'book' keyword anywhere in the name.
RECURSIVE ParsedGroups(_, _, _)
ParsedGroups(ms, g, i) ==
    IF i > Len(ms) THEN {}
    ELSE (IF IsSome(ParseGroup(ms[i], g)) THEN {Unwrap(ParseGroup(ms[i], g))} ELSE {})
            \cup ParsedGroups(ms, g, i + 1)
BookNumbers(s) == ParsedGroups(CapturesIter(re_book, s), 1, 1)
Name_Book3_Book4_4 ==
    <<"B", "o", "o", "k", " ", "3", " ", "-", " ", "B", "o", "o", "k", " ", "4", " ", "-",
      " ", "4">>

\* C16: in a name with two or more 'book N' markers and no explicit-context
\* keyword, none of the numbers that follow a 'book' keyword is returned.
C16_EveryBookNumberIgnored ==
    (ParsedFromName
        /\ ~Captures(re_context, file_stem).ok
        /\ Len(CapturesIter(re_book, file_stem)) >= 2
        /\ IsSome(file_number))
    => Unwrap(file_number) \notin BookNumbers(file_stem)

\* C19: for every track number t > 0 the tag gives, also t > 65535, the ordinal
\* returned is greater than zero and equal to t.
C19_TagValueKept ==
    (pc = "done" /\ IsSome(TagOrdinal(tag)) /\ Unwrap(TagOrdinal(tag)) > 0)
    => /\ IsSome(file_number)
       /\ Unwrap(file_number) > 0
       /\ Unwrap(file_number) = Unwrap(TagOrdinal(tag))

(***************************************************************************)
(* Notions of the claims about the naming of files.                        *)
(***************************************************************************)
RECURSIVE NumDigits(_)
NumDigits(n) == IF n < 10 THEN 1 ELSE 1 + NumDigits(n \div 10)
\* cs is the decimal of n with '0' added on the left up to the width, and no
\* digit of n taken away.
PaddedDecimal(cs, n, width) ==
    /\ Len(cs) = (IF NumDigits(n) > width THEN NumDigits(n) ELSE width)
    /\ \A i \in DOMAIN cs : cs[i] \in Digit
    /\ \A i \in 1..(Len(cs) - NumDigits(n)) : cs[i] = "0"
    /\ ParseU16(cs) = Some(n)
\* The padded field is there exactly when the number is, and is its padding.
Agrees(md, number, padded, width) ==
    /\ IsSome(md[padded]) <=> IsSome(md[number])
    /\ IsSome(md[number]) =>
          PaddedDecimal(Unwrap(md[padded]).s, Unwrap(md[number]).n, width)
\* fmt_path has returned; fmt_file has returned from rendering a file's name.
PathFormatted == pc = "done" /\ IsSome(path_result)
FileRendered ==
    IsSome(file_result) /\ Unwrap(file_result).ret.rendered
        /\ Unwrap(file_result).ret.fault = ""
LastFile == Unwrap(file_result).file
LastRet == Unwrap(file_result).ret
Str_03 == <<"0", "3">>
Str_150 == <<"1", "5", "0">>

\* C11: book_number_with_zeros is the decimal of book_number padded with '0' to
\* at least 2 characters and file_number_with_zeros that of file_number to at
\* least 3, no digit lost: the padded string parsed as a number gives the number
\* back (3 gives "03", 150 gives "150").
C11_PaddingKeepsValue ==
    /\ PathFormatted =>
          /\ Agrees(metadata, "book_number", "book_number_with_zeros", 2)
          /\ metadata["book_number"] = Some(NumVal(3))
                => metadata["book_number_with_zeros"] = Some(StrVal(Str_03))
          /\ metadata["book_number"] = Some(NumVal(150))
                => metadata["book_number_with_zeros"] = Some(StrVal(Str_150))
    /\ FileRendered =>
          /\ Agrees(metadata, "file_number", "file_number_with_zeros", 3)
          /\ metadata["file_number"] = Some(NumVal(150))
                => metadata["file_number_with_zeros"] = Some(StrVal(Str_150))

\* C11's case: a book number of three digits and a file number of four, both
\* longer than their widths, have been padded.
C11_Witness ==
    /\ FileRendered
    /\ metadata["book_number"] = Some(NumVal(150))
    /\ metadata["book_number_with_zeros"] = Some(StrVal(Str_150))
    /\ metadata["file_number"] = Some(NumVal(1000))
    /\ Len(Unwrap(metadata["file_number_with_zeros"]).s) = 4

\* reg.render was called in the last call of fmt_file (it returned or failed).
RenderCalled == IsSome(file_result) /\ Unwrap(file_result).ret.rendered
\* The metadata record as it was before the last call of fmt_file.
Before == Unwrap(file_result).before

\* C12: at every render call the padded fields agree with their numbers:
\* book_number_with_zeros is there iff book_number is and is its padding to 2,
\* file_number_with_zeros is there iff file_number is and is its padding to 3,
\* and the file number is the one inferred for the file that is being named.
C12_DerivedFieldsFresh ==
    /\ (PathFormatted /\ file_result = None)
          => Agrees(metadata, "book_number", "book_number_with_zeros", 2)
    /\ RenderCalled =>
          /\ Agrees(metadata, "book_number", "book_number_with_zeros", 2)
          /\ Agrees(metadata, "file_number", "file_number_with_zeros", 3)
          /\ metadata["file_number"]
                = OptNum(GetTrackNumber(FileStem(LastFile.name), LastFile.probed))

\* C12's case: the file named before left a file number in the record, and the
\* file that is named now has another one, or none.
C12_Witness ==
    /\ RenderCalled
    /\ IsSome(Before["file_number"])
    /\ IsSome(Before["file_number_with_zeros"])
    /\ Before["file_number"] # metadata["file_number"]
    /\ Before["file_number_with_zeros"] # metadata["file_number_with_zeros"]


\* A block of the template has a guard that is present and is the empty string,
\* zero or false.
HasFalsyGuard(tpl, md) ==
    \E i \in DOMAIN tpl : tpl[i].k = "if" /\ ~Absent(md, tpl[i].f) /\ ~GuardHolds(md, tpl[i].f)
\* The name fmt_file gives from what the file template wrote.
WithExtension(cs, name) == cs \o <<".">> \o Unwrap(Extension(name))
Name_Title_mp3 == <<"T", "i", "t", "l", "e", ".", "m", "p", "3">>

\* C17: (as stated) a block whose guard is present with an empty-string value,
\* false or the number 0 is still included in what fmt_path and fmt_file render.
C17_FalsyGuardIncluded ==
    /\ (PathFormatted /\ file_result = None /\ IsOk(Result) /\ Flat(path_template)
           /\ HasFalsyGuard(path_template, metadata))
          => Result.out = Expected(path_template, metadata, TRUE)
    /\ (FileRendered /\ Flat(file_template) /\ HasFalsyGuard(file_template, metadata))
          => LastRet.result.out
                = WithExtension(Expected(file_template, metadata, TRUE), LastFile.name)

\* C17: (amended) a block whose guard is present with an empty-string value,
\* false or the number 0 is left out of what fmt_path and fmt_file render, as when
\* the guard is absent; the other blocks with a present guard are included.
C17_FalsyGuardOmitted ==
    /\ (PathFormatted /\ file_result = None /\ IsOk(Result) /\ Flat(path_template)
           /\ HasFalsyGuard(path_template, metadata))
          => Result.out = Expected(path_template, metadata, FALSE)
    /\ (FileRendered /\ Flat(file_template) /\ HasFalsyGuard(file_template, metadata))
          => LastRet.result.out
                = WithExtension(Expected(file_template, metadata, FALSE), LastFile.name)

\* C17's case: the file number is 0, and the block it guards is not in the name.
C17_Witness ==
    /\ FileRendered
    /\ file_template = NumberedFileTemplate
    /\ metadata["file_number"] = Some(NumVal(0))
    /\ LastRet.result = Ok(Name_Title_mp3)


\* C18: when fmt_file names an audio file whose own embedded tag has a track
\* number t > 0, metadata.file_number becomes t and file_number_with_zeros its
\* padding to 3, whatever the file's name and whatever else lies elsewhere.
C18_OwnTagConsulted ==
    (RenderCalled /\ IsSome(TagOrdinal(LastFile.own)) /\ Unwrap(TagOrdinal(LastFile.own)) > 0)
    => /\ metadata["file_number"] = Some(NumVal(Unwrap(TagOrdinal(LastFile.own))))
       /\ Agrees(metadata, "file_number", "file_number_with_zeros", 3)

(***************************************************************************)
(* Notions of the claims about a whole run.                                *)
(***************************************************************************)
\* The source tree is as it was when the program started.
SourceIntact ==
    /\ fs.src = fs.orig
    /\ fs.src_dirs = DOMAIN fs.orig
    /\ fs.parent = [exists |-> TRUE, junk |-> TRUE]
\* Nothing has been made at the destination.
DestinationEmpty == fs.dst = {} /\ fs.dst_dirs = {}

\* C13: a failure to render the path or the file template for one record is a
\* returned error, never a panic or an exit: the entry is passed over and the
\* records after it are still planned and processed.
C13_RenderFailureNotFatal ==
    ~(pc = "panic" /\ IsSome(file_result) /\ Unwrap(file_result).ret.fault = "render")

\* C14: with --dry-run and any action, nothing is created, copied, renamed, moved
\* or deleted: the file system stays as it was before the run.
C14_DryRunChangesNothing ==
    cfg.dry_run => SourceIntact /\ DestinationEmpty /\ fs.faults = 0

\* C14's case: a dry run of action All has reported a file and finished.
C14_Witness ==
    /\ cfg.dry_run
    /\ cfg.action = "All"
    /\ pc = "finished"
    /\ IsSome(file_result)
    /\ SourceIntact /\ DestinationEmpty

\* C15: with action None every source file stays at its path and no source
\* directory is removed; a source file leaves the source tree only with Move or
\* All, a source directory (or what lies in the parent) is removed only with All.
C15_CopyKeepsSource ==
    /\ cfg.action = "None" => SourceIntact
    /\ fs.src # fs.orig => cfg.action \in {"Move", "All"}
    /\ (fs.src_dirs # DOMAIN fs.orig \/ fs.parent # [exists |-> TRUE, junk |-> TRUE])
          => cfg.action = "All"

\* C15's case: a run with action None has copied a file and finished.
C15_Witness ==
    /\ ~cfg.dry_run
    /\ cfg.action = "None"
    /\ pc = "finished"
    /\ \E e \in fs.dst : e.content = <<1, Name_02_title_mp3>>
    /\ SourceIntact

\* C20: no file is lost with action All: a source directory is removed only when
\* every file of it has been moved out of it, also when the creation of the
\* destination directory or a move has failed.
C20_NoFileLost ==
    [][\A d \in fs.src_dirs \ fs'.src_dirs : fs.src[d] = <<>>]_vars


\* The extension of the file name is not one of the list: the name has no
\* extension, or an extension that is not an element of the list as it is written.
Unlisted(name, file_ext) ==
    Extension(name) = None \/ ~Contains(file_ext, Unwrap(Extension(name)))

\* C22: for a file whose extension is not in the list (no extension at all, or
\* one that differs in letter case only, included) fmt_file returns Ok with the
\* full name of the file and leaves the metadata record as it was; it never
\* fails or aborts.
C22_UnlistedNameKept ==
    (IsSome(file_result) /\ Unlisted(LastFile.name, cfg.file_ext))
    => /\ LastRet.fault = ""
       /\ LastRet.result = Ok(LastFile.name)
       /\ LastRet.metadata = Before
       /\ pc # "panic"


\* C21: within one plan no two source files get the same destination path: no
\* copy or move replaces a file that was written before from another file of the
\* same source directory.
C21_NoOverwriteInPlan ==
    [][\A e \in fs.dst : \A e2 \in fs'.dst :
          (e2.to = e.to /\ e2.name = e.name /\ e2.content[1] = e.content[1])
             => e2.content = e.content]_vars

====
